---- MODULE Spec2Model ----
(***************************************************************************)
(* Model of submatrix.py: a 16-element source list, the index filter       *)
(* submatrix(row, col), the 4x4 driving loop that collects the 16 results, *)
(* and the final print.                                                    *)
(*                                                                         *)
(* Python names that collide are disambiguated: the module-level loop      *)
(* variables are i and j, the module-level collection is result; the       *)
(* locals of submatrix are fn_i (its enumerate index) and fn_result (its   *)
(* local list named result).                                               *)
(***************************************************************************)
EXTENDS Integers, Sequences, FiniteSets, TLC

VARIABLES nums, result, i, j, pc, row, col, fn_i, fn_result, stdout

vars == <<nums, result, i, j, pc, row, col, fn_i, fn_result, stdout>>

---------------------------------------------------------------------------
(* Bounds of the exploration *)

\* arguments of submatrix are drawn from (0 - MaxArg) .. (3 + MaxArg)
MaxArg == 2

\* number of calls made with the same arguments in the function harness
MaxCalls == 2

ArgRange == (0 - MaxArg)..(3 + MaxArg)

InRange(r, c) == r \in 0..3 /\ c \in 0..3

---------------------------------------------------------------------------
(* Pure helpers, computed as the code computes them *)

\* list(range(1, 17)): a source list that starts at 1
range16FromOne == [p \in 1..16 |-> p]

\* list(range(16)): the value at 0-based position p is p
range16 == [p \in 1..16 |-> p - 1]

\* 0-based subscript into a Python list
At(list, p) == list[p + 1]

\* Python's a % b for b > 0: the result is never negative
PyMod(a, b) == a % b

\* (i - col) % 4 != 0, with the operands swapped into a sum
ColTestSum(p, c) == PyMod(p + c, 4) # 0

\* (i - col) % 4 != 0
ColTest(p, c) == PyMod(p - c, 4) # 0

\* the band test with an inclusive lower comparison
RowTestInclusive(p, r) == (p >= (r + 1) * 4) \/ (p <= r * 4)

\* the band test with an exclusive upper comparison
RowTestStrict(p, r) == (p > (r + 1) * 4) \/ (p < r * 4)

\* (i >= (row + 1) * 4) or (i < row * 4)
RowTest(p, r) == (p >= (r + 1) * 4) \/ (p < r * 4)

\* the condition with or in place of and
KeepOr(p, r, c) == ColTest(p, c) \/ RowTest(p, r)

\* the condition of the if statement
Keep(p, r, c) == ColTest(p, c) /\ RowTest(p, r)

\* one iteration of the for loop that puts the new item in front
LoopBodyPrepend(p, acc, r, c) ==
    IF Keep(p, r, c) THEN <<At(nums, p)>> \o acc ELSE acc

\* one iteration of the for loop: append item when the condition holds
LoopBody(p, acc, r, c) ==
    IF Keep(p, r, c) THEN Append(acc, At(nums, p)) ELSE acc

RECURSIVE enumerate(_, _, _, _)
\* the for loop over enumerate(nums), from position p with acc collected
enumerate(p, acc, r, c) ==
    IF p >= Len(nums) THEN acc
    ELSE enumerate(p + 1, LoopBody(p, acc, r, c), r, c)

\* submatrix(row, col) as a value
submatrix(r, c) == enumerate(0, <<>>, r, c)

---------------------------------------------------------------------------
(* The program *)

Init ==
    /\ nums = range16
    /\ result = <<>>
    /\ i = 0
    /\ j = 0
    /\ pc = "loop"
    /\ row = 0
    /\ col = 0
    /\ fn_i = 0
    /\ fn_result = <<>>
    /\ stdout = <<>>

\* entry of submatrix that keeps the list of the previous call
EnterStale(r, c) ==
    /\ row' = r
    /\ col' = c
    /\ fn_result' = fn_result
    /\ fn_i' = 0
    /\ pc' = "body"

\* entry of submatrix: bind the arguments, result = [], start the loop
Enter(r, c) ==
    /\ row' = r
    /\ col' = c
    /\ fn_result' = <<>>
    /\ fn_i' = 0
    /\ pc' = "body"

\* the inner loop calling submatrix(j, i)
CallSwapped ==
    /\ pc = "loop"
    /\ i < 4
    /\ j < 4
    /\ Enter(j, i)
    /\ UNCHANGED <<nums, result, i, j, stdout>>

\* the inner loop calls submatrix(i, j)
Call ==
    /\ pc = "loop"
    /\ i < 4
    /\ j < 4
    /\ Enter(i, j)
    /\ UNCHANGED <<nums, result, i, j, stdout>>

\* an iteration of submatrix that appends to nums itself
StepOnNums ==
    /\ pc = "body"
    /\ fn_i < Len(nums)
    /\ nums' = LoopBody(fn_i, nums, row, col)
    /\ fn_result' = nums'
    /\ fn_i' = fn_i + 1
    /\ UNCHANGED <<result, i, j, pc, row, col, stdout>>

\* one iteration of the for loop of submatrix
Step ==
    /\ pc = "body"
    /\ fn_i < Len(nums)
    /\ fn_result' = LoopBody(fn_i, fn_result, row, col)
    /\ fn_i' = fn_i + 1
    /\ UNCHANGED <<nums, result, i, j, pc, row, col, stdout>>

\* submatrix returns and the driver appends the value to result
Return ==
    /\ pc = "body"
    /\ fn_i >= Len(nums)
    /\ result' = Append(result, fn_result)
    /\ j' = j + 1
    /\ pc' = "loop"
    /\ UNCHANGED <<nums, i, row, col, fn_i, fn_result, stdout>>

\* the inner loop is exhausted: next value of the outer loop
NextRow ==
    /\ pc = "loop"
    /\ i < 4
    /\ j = 4
    /\ i' = i + 1
    /\ j' = 0
    /\ UNCHANGED <<nums, result, pc, row, col, fn_i, fn_result, stdout>>

\* a print indented into the outer loop
print_each_row ==
    /\ pc = "loop"
    /\ j = 4
    /\ stdout' = Append(stdout, result)
    /\ i' = i + 1
    /\ j' = 0
    /\ pc' = IF i' > 4 THEN "done" ELSE "loop"
    /\ UNCHANGED <<nums, result, row, col, fn_i, fn_result>>

\* print(result) after the outer loop
print_result ==
    /\ pc = "loop"
    /\ i = 4
    /\ stdout' = Append(stdout, result)
    /\ pc' = "done"
    /\ UNCHANGED <<nums, result, i, j, row, col, fn_i, fn_result>>

Next == Call \/ Step \/ Return \/ NextRow \/ print_result

Spec == Init /\ [][Next]_vars

\* a sequential program always takes its next statement
LiveSpec == Spec /\ WF_vars(Next)

---------------------------------------------------------------------------
(* The function under arbitrary arguments, called repeatedly *)

FnInit ==
    /\ nums = range16
    /\ result = <<>>
    /\ i = 0
    /\ j = 0
    /\ pc = "body"
    /\ row \in ArgRange
    /\ col \in ArgRange
    /\ fn_i = 0
    /\ fn_result = <<>>
    /\ stdout = <<>>

\* the call returns and its value is appended to the collection
FnReturn ==
    /\ pc = "body"
    /\ fn_i >= Len(nums)
    /\ result' = Append(result, fn_result)
    /\ pc' = "returned"
    /\ UNCHANGED <<nums, i, j, row, col, fn_i, fn_result, stdout>>

\* the same arguments are passed again, later in the run
FnRecall ==
    /\ pc = "returned"
    /\ Len(result) < MaxCalls
    /\ Enter(row, col)
    /\ UNCHANGED <<nums, result, i, j, stdout>>

FnNext == Step \/ FnReturn \/ FnRecall

FnSpec == FnInit /\ [][FnNext]_vars

---------------------------------------------------------------------------
(* Helpers of the properties *)

Range(s) == {s[p] : p \in DOMAIN s}

RECURSIVE TotalLen(_)
TotalLen(ss) == IF ss = <<>> THEN 0 ELSE Len(Head(ss)) + TotalLen(Tail(ss))

StrictlyIncreasing(s) == \A a, b \in DOMAIN s : a < b => s[a] < s[b]

RowBand(r) == {p \in 0..15 : p \div 4 = r}

ColClass(c) == {p \in 0..15 : p % 4 = c}

RECURSIVE DirectFrom(_, _, _, _)
\* the filter written with the direct column test i % 4 == col
DirectFrom(p, acc, r, c) ==
    IF p >= 16 THEN acc
    ELSE DirectFrom(p + 1,
                    IF ~(p % 4 = c) /\ ((p >= (r + 1) * 4) \/ (p < r * 4))
                    THEN Append(acc, At(nums, p)) ELSE acc,
                    r, c)

Returned == pc = "returned"

---------------------------------------------------------------------------
(* Properties *)

\* C1: for row, col in 0..3 the value returned by submatrix(row, col) holds
\* exactly the nums[i] with (i - col) mod 4 # 0 and (i >= (row+1)*4 or
\* i < row*4), which is the set of i with i mod 4 # col and i div 4 # row,
\* each once.
C1_ExactFilter ==
    (Returned /\ InRange(row, col)) =>
        /\ Range(fn_result) =
             {At(nums, p) : p \in {q \in 0..15 :
                 /\ (q - col) % 4 # 0
                 /\ ((q >= (row + 1) * 4) \/ (q < row * 4))}}
        /\ Range(fn_result) = {n \in 0..15 : n % 4 # col /\ n \div 4 # row}
        /\ Len(fn_result) = Cardinality(Range(fn_result))

C1_Witness ==
    Returned /\ row = 1 /\ col = 2 /\ fn_result = <<0, 1, 3, 8, 9, 11, 12, 13, 15>>

\* C2: for row, col in 0..3 the returned sequence has length exactly 9:
\* 16 minus the 4 indices of the row band minus the 4 of the column class
\* plus the one index they share.
C2_LengthNine ==
    (Returned /\ InRange(row, col)) =>
        /\ Len(fn_result) = 9
        /\ Len(fn_result) = 16 - Cardinality(RowBand(row))
                               - Cardinality(ColClass(col))
                               + Cardinality(RowBand(row) \cap ColClass(col))

C2_Witness ==
    Returned /\ row = 2 /\ col = 1 /\ Len(fn_result) = 9

\* C3: the collection never has more than 16 entries, the entry at position
\* 4*row + col is submatrix(row, col), so the collection is at every point a
\* prefix of the final one, and when the loop has finished it has 16 entries
\* totalling 144 integers.
C3_Collection ==
    /\ Len(result) <= 16
    /\ \A p \in DOMAIN result :
           result[p] = submatrix((p - 1) \div 4, (p - 1) % 4)
    /\ (pc = "loop" /\ i = 4) => (Len(result) = 16 /\ TotalLen(result) = 144)
    /\ pc = "done" => (Len(result) = 16 /\ TotalLen(result) = 144)

C3_Witness ==
    pc = "loop" /\ i = 4 /\ Len(result) = 16 /\ result[7] # result[10]

\* C4: for row, col in 0..3 the elements collected by submatrix(row, col)
\* are strictly increasing, at every point of the loop and on return.
C4_StrictlyIncreasing ==
    InRange(row, col) => StrictlyIncreasing(fn_result)

C4_Witness ==
    Returned /\ InRange(row, col) /\ Len(fn_result) > 1
             /\ fn_result[1] < fn_result[Len(fn_result)]

\* C5: the collection written by the program has 16 entries, the first is
\* [5,6,7,9,10,11,13,14,15] and the last is [0,1,2,4,5,6,8,9,10].
C5_EndToEnd ==
    pc = "done" =>
        /\ Len(stdout) = 1
        /\ Len(stdout[1]) = 16
        /\ stdout[1][1] = <<5, 6, 7, 9, 10, 11, 13, 14, 15>>
        /\ stdout[1][16] = <<0, 1, 2, 4, 5, 6, 8, 9, 10>>

C5_Witness ==
    pc = "done" /\ stdout # <<>> /\ Len(stdout[1]) = 16

\* C6: nums is [0, 1, ..., 15] in every reachable state of the program.
C6_NumsReadOnly ==
    nums = <<0, 1, 2, 3, 4, 5, 6, 7, 8, 9, 10, 11, 12, 13, 14, 15>>

C6_Witness ==
    /\ Len(result) >= 1
    /\ pc = "body"
    /\ fn_result # <<>>
    /\ nums = <<0, 1, 2, 3, 4, 5, 6, 7, 8, 9, 10, 11, 12, 13, 14, 15>>

\* C7: calls of submatrix with the same arguments, made at different points
\* of the run, return equal sequences, and while a call runs neither nums
\* nor the collection changes.
C7_Deterministic ==
    /\ [](\A a, b \in DOMAIN result : result[a] = result[b])
    /\ [][(pc = "body" /\ fn_i < Len(nums)) =>
              (nums' = nums /\ result' = result)]_vars

C7_Witness ==
    Returned /\ Len(result) >= 2 /\ result[1] = result[2] /\ result[1] # <<>>

\* C8: the program terminates; it writes once, the write is the collection
\* of all 16 entries, and nothing is written before the loop has finished
\* or after the write.
C8_SingleWrite ==
    /\ <>(pc = "done")
    /\ [](Len(stdout) <= 1)
    /\ [](pc # "done" => stdout = <<>>)
    /\ [](pc = "done" => (stdout = <<result>> /\ Len(result) = 16))
    /\ [][stdout' # stdout =>
              (stdout = <<>> /\ i = 4 /\ Len(result) = 16)]_vars

C8_Witness ==
    pc = "done" /\ Len(stdout) = 1 /\ i = 4 /\ Len(result) = 16

\* C9: for i in 0..15 and col in 0..3 the test (i - col) % 4 != 0 agrees
\* with i % 4 != col, (0 - 3) % 4 is 1, and the filter written with the
\* direct test returns what submatrix returns for row, col in 0..3.
C9_DirectTest ==
    /\ (col \in 0..3 /\ fn_i \in 0..15) =>
           (ColTest(fn_i, col) <=> (fn_i % 4 # col))
    /\ (fn_i = 0 /\ col = 3) => PyMod(fn_i - col, 4) = 1
    /\ (Returned /\ InRange(row, col)) =>
           fn_result = DirectFrom(0, <<>>, row, col)

C9_Witness ==
    /\ pc = "body"
    /\ fn_i = 0
    /\ col = 3
    /\ row \in 0..3
    /\ ColTest(fn_i, col)

\* C10: for any integers row and col the call completes and applies the
\* same index filter; the result has 12 elements when row is outside 0..3
\* and 9 when row is in 0..3, and is never empty.
C10_Permissive ==
    Returned =>
        /\ Len(fn_result) = IF row \in 0..3 THEN 9 ELSE 12
        /\ fn_result # <<>>
        /\ Range(fn_result) =
             {q \in 0..15 : /\ (q - col) % 4 # 0
                            /\ ((q >= (row + 1) * 4) \/ (q < row * 4))}

C10_Witness ==
    Returned /\ row < 0 /\ col > 3 /\ Len(fn_result) = 12

====
